---------------------------- MODULE Spec2Model ----------------------------
(*************************************************************************)
(* http-mailer (src/main.rs): a tiny HTTP server that authenticates a    *)
(* send-email request against a list of EMAIL=SHA256 pairs given on the  *)
(* command line, builds a mail message from the request headers and body *)
(* and hands it to the SMTP transport.                                   *)
(*                                                                       *)
(* Strings are sequences of one-character strings, so that lowercasing,  *)
(* trimming, searching and slicing are computed as the code computes     *)
(* them.  None is the absent Option.                                     *)
(*************************************************************************)
EXTENDS Integers, Sequences, FiniteSets, TLC

\* Option<T>: None is the empty sequence, Some(x) the one-element sequence
None == << >>

Some(x) == << x >>

Unwrap(o) == o[1]

\* Result<T, E>
Ok(v) == [ ok |-> TRUE, val |-> v ]

Err(e) == [ ok |-> FALSE, err |-> e ]

(* ------------------------------ strings ------------------------------ *)

UpperLetters ==
    << "A","B","C","D","E","F","G","H","I","J","K","L","M",
       "N","O","P","Q","R","S","T","U","V","W","X","Y","Z" >>

LowerLetters ==
    << "a","b","c","d","e","f","g","h","i","j","k","l","m",
       "n","o","p","q","r","s","t","u","v","w","x","y","z" >>

Digits == << "0","1","2","3","4","5","6","7","8","9" >>

Range(s) == { s[i] : i \in DOMAIN s }

UpperToLower ==
    [ c \in Range(UpperLetters) |->
        LowerLetters[CHOOSE i \in DOMAIN UpperLetters : UpperLetters[i] = c] ]

\* char::to_ascii_lowercase: A-Z to a-z, every other character unchanged
LowerChar(c) == IF c \in DOMAIN UpperToLower THEN UpperToLower[c] ELSE c

\* str::to_ascii_lowercase
ToAsciiLowercase(s) == [ i \in DOMAIN s |-> LowerChar(s[i]) ]

\* str::to_lowercase, which on the ASCII text of the model is the same map
ToLowercase(s) == ToAsciiLowercase(s)

\* char::is_ascii_hexdigit: 0-9, a-f, A-F
IsAsciiHexdigit(c) ==
    \/ c \in Range(Digits)
    \/ \E i \in 1..6 : c = LowerLetters[i] \/ c = UpperLetters[i]

IsWhitespace(c) == c \in { " ", "\t", "\n" }

\* str::trim: leading and trailing whitespace removed
RECURSIVE TrimStart(_)
TrimStart(s) ==
    IF s # << >> /\ IsWhitespace(Head(s)) THEN TrimStart(Tail(s)) ELSE s

RECURSIVE TrimEnd(_)
TrimEnd(s) ==
    IF s # << >> /\ IsWhitespace(s[Len(s)])
    THEN TrimEnd(SubSeq(s, 1, Len(s) - 1))
    ELSE s

Trim(s) == TrimEnd(TrimStart(s))

\* whether pat occurs in s at the 0-based offset i
OccursAt(s, pat, i) ==
    /\ i + Len(pat) <= Len(s)
    /\ \A j \in 1..Len(pat) : s[i + j] = pat[j]

Offsets(s, pat) == { i \in 0..Len(s) : OccursAt(s, pat, i) }

\* str::find: the 0-based offset of the first occurrence, or None
Find(s, pat) ==
    IF Offsets(s, pat) = {} THEN None
    ELSE Some(CHOOSE i \in Offsets(s, pat) : \A k \in Offsets(s, pat) : i <= k)

\* str::contains
Contains(s, pat) == Offsets(s, pat) # {}

\* the slices s[..i] and s[i..] at a 0-based offset i
SliceTo(s, i) == SubSeq(s, 1, i)

SliceFrom(s, i) == SubSeq(s, i + 1, Len(s))

(* --------------------------- parse_key_val --------------------------- *)

\* a SHA-256 digest in hexadecimal has 64 characters
HashLen == 64

\* parse_key_val without the check of the length of the value
ParseKeyValAnyLength(s) ==
    LET pos == Find(s, << "=" >>) IN
    IF pos = None THEN Err("no = found")
    ELSE LET key == ToLowercase(Trim(SliceTo(s, Unwrap(pos))))
             value == SliceFrom(s, Unwrap(pos) + 1)
         IN  IF ~ Contains(key, << "@" >>) THEN Err("is not an email")
             ELSE IF \E i \in DOMAIN value : ~ IsAsciiHexdigit(value[i])
                  THEN Err("is not a sha256 hash")
                  ELSE Ok(<< key, value >>)

\* fn parse_key_val: EMAIL=API_KEY to (trimmed lowercased EMAIL, API_KEY),
\* or an error when there is no '=', no '@' in the key, or the value is not
\* 64 hexadecimal characters
ParseKeyVal(s) ==
    LET pos == Find(s, << "=" >>) IN
    IF pos = None THEN Err("no = found")
    ELSE LET key == ToLowercase(Trim(SliceTo(s, Unwrap(pos))))
             value == SliceFrom(s, Unwrap(pos) + 1)
         IN  IF ~ Contains(key, << "@" >>) THEN Err("is not an email")
             ELSE IF Len(value) # HashLen
                     \/ \E i \in DOMAIN value : ~ IsAsciiHexdigit(value[i])
                  THEN Err("is not a sha256 hash")
                  ELSE Ok(<< key, value >>)

\* clap applies parse_key_val to every -k argument, in order, and collects
\* the results in cli.kv; one rejected argument ends the process
RECURSIVE ParseKv(_)
ParseKv(args) ==
    IF args = << >> THEN Ok(<< >>)
    ELSE LET first == ParseKeyVal(Head(args))
             rest == ParseKv(Tail(args))
         IN  IF ~ first.ok THEN first
             ELSE IF ~ rest.ok THEN rest
             ELSE Ok(<< first.val >> \o rest.val)

(* ------------------------------ digests ------------------------------ *)

\* the api keys requests of the model carry
KeySecret == << "s","e","c","r","e","t" >>

KeyWrong == << "w","r","o","n","g" >>

\* Sha256::new / update / finalize: the 32 bytes of the SHA-256 digest of the
\* key (the true digests of "secret" and "wrong")
Sha256(key) ==
    CASE key = KeySecret ->
           << 43, 184, 13, 83, 123, 29, 163, 227, 139, 211, 3, 97, 170, 133,
              86, 134, 189, 224, 234, 205, 113, 98, 254, 246, 162, 95, 233,
              123, 245, 39, 162, 91 >>
      [] key = KeyWrong ->
           << 136, 16, 173, 88, 30, 89, 242, 188, 57, 40, 178, 97, 112, 122,
              113, 48, 143, 126, 19, 158, 176, 72, 32, 54, 109, 196, 213,
              193, 141, 152, 2, 37 >>

HexDigitsLower == Digits \o SubSeq(LowerLetters, 1, 6)

\* format!("{:x}"): two lowercase hexadecimal digits for each byte
LowerHex(bytes) ==
    [ i \in 1..(2 * Len(bytes)) |->
        LET b == bytes[(i + 1) \div 2] IN
        HexDigitsLower[(IF i % 2 = 1 THEN b \div 16 ELSE b % 16) + 1] ]

\* the digests of the api keys of the model
DigestOf == [ key \in { KeySecret, KeyWrong } |-> LowerHex(Sha256(key)) ]

\* let hashed_api_key = format!("{hashed_api_key:x}")
HashedApiKey(api_key) == DigestOf[api_key]

(* -------------------------- header extraction ------------------------- *)

NoFields ==
    [ to |-> None, from |-> None, subject |-> None,
      reply_to |-> None, api_key |-> None ]

\* the scan with the first occurrence of a name kept instead of the last
ScanHeaderFirstWins(f, header) ==
    LET name == ToAsciiLowercase(header.field) IN
    CASE name = << "t","o" >> /\ f.to = None ->
           [ f EXCEPT !.to = Some(header.value) ]
      [] name = << "f","r","o","m" >> /\ f.from = None ->
           [ f EXCEPT !.from = Some(ToAsciiLowercase(header.value)) ]
      [] name = << "s","u","b","j","e","c","t" >> /\ f.subject = None ->
           [ f EXCEPT !.subject = Some(header.value) ]
      [] name = << "r","e","p","l","y","-","t","o" >> /\ f.reply_to = None ->
           [ f EXCEPT !.reply_to = Some(header.value) ]
      [] name = << "a","p","i","-","k","e","y" >> /\ f.api_key = None ->
           [ f EXCEPT !.api_key = Some(header.value) ]
      [] OTHER -> f

\* one iteration of the scan: the match on the lowercased header name
ScanHeader(f, header) ==
    LET name == ToAsciiLowercase(header.field) IN
    CASE name = << "t","o" >> ->
           [ f EXCEPT !.to = Some(header.value) ]
      [] name = << "f","r","o","m" >> ->
           [ f EXCEPT !.from = Some(ToAsciiLowercase(header.value)) ]
      [] name = << "s","u","b","j","e","c","t" >> ->
           [ f EXCEPT !.subject = Some(header.value) ]
      [] name = << "r","e","p","l","y","-","t","o" >> ->
           [ f EXCEPT !.reply_to = Some(header.value) ]
      [] name = << "a","p","i","-","k","e","y" >> ->
           [ f EXCEPT !.api_key = Some(header.value) ]
      [] OTHER -> f

\* for header in headers { match ... }: the scan, first header first
RECURSIVE ScanFrom(_, _)
ScanFrom(f, hs) ==
    IF hs = << >> THEN f ELSE ScanFrom(ScanHeader(f, Head(hs)), Tail(hs))

ExtractFields(hs) == ScanFrom(NoFields, hs)

(* --------------------------- authentication --------------------------- *)

\* the loop without its early return: any entry of the sender authorizes
AuthorizedByAnyEntry(keys, from, hashed_api_key) ==
    \E i \in DOMAIN keys :
        /\ keys[i][1] = from
        /\ Contains(hashed_api_key, keys[i][2])

\* for (user, hashed_key) in hashed_api_keys: the first entry whose user
\* equals from decides (contains: authorized and break; otherwise return
\* Unauthorized); no such entry leaves authorized false
RECURSIVE Authorized(_, _, _)
Authorized(keys, from, hashed_api_key) ==
    IF keys = << >> THEN FALSE
    ELSE IF Head(keys)[1] = from
         THEN Contains(hashed_api_key, Head(keys)[2])
         ELSE Authorized(Tail(keys), from, hashed_api_key)

\* the check with an absent api-key reported as Unauthorized
CheckApiKeyNoneAsUnauthorized(f, keys) ==
    IF f.api_key = None
    THEN Err([ kind |-> "Unauthorized", digest |-> << >> ])
    ELSE LET hashed_api_key == HashedApiKey(Unwrap(f.api_key))
             from == IF f.from = None THEN << >>
                     ELSE ToAsciiLowercase(Unwrap(f.from))
         IN  IF Authorized(keys, from, hashed_api_key) THEN Ok(<< >>)
             ELSE Err([ kind |-> "Unauthorized", digest |-> hashed_api_key ])

\* match api_key { Some => ..., None => Err(MissingApiKey) }
CheckApiKey(f, keys) ==
    IF f.api_key = None THEN Err([ kind |-> "MissingApiKey" ])
    ELSE LET hashed_api_key == HashedApiKey(Unwrap(f.api_key))
             from == IF f.from = None THEN << >>
                     ELSE ToAsciiLowercase(Unwrap(f.from))
         IN  IF Authorized(keys, from, hashed_api_key) THEN Ok(<< >>)
             ELSE Err([ kind |-> "Unauthorized", digest |-> hashed_api_key ])

(* ----------------------------- validation ----------------------------- *)

\* From<AddressError> for Error (error.rs): a mailbox that does not parse
FromAddressError == [ kind |-> "MailboxParseError" ]

\* From<smtp::Error> for Error (error.rs): the transport's failure
FromSmtpError == [ kind |-> "DispatchFailed" ]

\* str::parse::<Mailbox> on the bare form user@domain (the texts of the model
\* hold no angle brackets): the text is split at its last '@'; the user and
\* the domain are both non-empty, the user holds no '@' and neither holds
\* whitespace
ParseMailbox(s) ==
    LET ats == Offsets(s, << "@" >>) IN
    IF ats = {} THEN Err(FromAddressError)
    ELSE LET at == CHOOSE i \in ats : \A k \in ats : k <= i
             user == SliceTo(s, at)
             domain == SliceFrom(s, at + 1)
         IN  IF \/ user = << >>
                \/ domain = << >>
                \/ Contains(user, << "@" >>)
                \/ \E c \in Range(s) : IsWhitespace(c)
             THEN Err(FromAddressError)
             ELSE Ok([ name |-> None, user |-> user, domain |-> domain ])

\* the checks with the subject checked first
ValidateParamsSubjectFirst(f) ==
    LET to == IF f.to = None THEN None ELSE Some(ParseMailbox(Unwrap(f.to)))
        from == IF f.from = None THEN None
                ELSE Some(ParseMailbox(Unwrap(f.from)))
        reply_to == IF f.reply_to = None THEN None
                    ELSE Some(ParseMailbox(Unwrap(f.reply_to)))
    IN  IF f.subject = None THEN Err([ kind |-> "MissingSubject" ])
        ELSE IF to # None /\ ~ Unwrap(to).ok THEN Unwrap(to)
        ELSE IF to = None THEN Err([ kind |-> "MissingTo" ])
        ELSE IF from # None /\ ~ Unwrap(from).ok THEN Unwrap(from)
        ELSE IF from = None THEN Err([ kind |-> "MissingFrom" ])
        ELSE IF reply_to # None /\ ~ Unwrap(reply_to).ok THEN Unwrap(reply_to)
        ELSE Ok([ to |-> Unwrap(to).val,
                  from |-> Unwrap(from).val,
                  reply_to |-> IF reply_to = None THEN None
                               ELSE Some(Unwrap(reply_to).val),
                  subject |-> Unwrap(f.subject) ])

\* The four checks of "Parse and validate parameters", in the code's order;
\* the first that fails is the result.
ValidateParams(f) ==
    LET to == IF f.to = None THEN None ELSE Some(ParseMailbox(Unwrap(f.to)))
        from == IF f.from = None THEN None
                ELSE Some(ParseMailbox(Unwrap(f.from)))
        reply_to == IF f.reply_to = None THEN None
                    ELSE Some(ParseMailbox(Unwrap(f.reply_to)))
    IN  IF to # None /\ ~ Unwrap(to).ok THEN Unwrap(to)
        ELSE IF to = None THEN Err([ kind |-> "MissingTo" ])
        ELSE IF from # None /\ ~ Unwrap(from).ok THEN Unwrap(from)
        ELSE IF from = None THEN Err([ kind |-> "MissingFrom" ])
        ELSE IF reply_to # None /\ ~ Unwrap(reply_to).ok THEN Unwrap(reply_to)
        ELSE IF f.subject = None THEN Err([ kind |-> "MissingSubject" ])
        ELSE Ok([ to |-> Unwrap(to).val,
                  from |-> Unwrap(from).val,
                  reply_to |-> IF reply_to = None THEN None
                               ELSE Some(Unwrap(reply_to).val),
                  subject |-> Unwrap(f.subject) ])

(* ----------------------------- composition ---------------------------- *)

\* "\n-----END-TEXT-BEGIN-HTML-----\n"
Sentinel ==
    << "\n", "-","-","-","-","-", "E","N","D", "-", "T","E","X","T", "-",
       "B","E","G","I","N", "-", "H","T","M","L", "-","-","-","-","-", "\n" >>

\* the 31 of &body[idx + 31..]
SentinelSkip == 31

\* the split at the last occurrence of the sentinel instead of the first
BuildBodyAtLast(b) ==
    LET at == Offsets(b, Sentinel) IN
    IF at # {}
    THEN LET idx == CHOOSE i \in at : \A k \in at : k <= i IN
         [ kind |-> "alternative",
           plain |-> SliceTo(b, idx),
           html |-> SliceFrom(b, idx + SentinelSkip) ]
    ELSE [ kind |-> "plain", text |-> b ]

\* the body of the message: two parts when the sentinel occurs, split at its
\* first occurrence, and otherwise the one plain part
BuildBody(b) ==
    LET idx == Find(b, Sentinel) IN
    IF idx # None
    THEN [ kind |-> "alternative",
           plain |-> SliceTo(b, Unwrap(idx)),
           html |-> SliceFrom(b, Unwrap(idx) + SentinelSkip) ]
    ELSE [ kind |-> "plain", text |-> b ]

\* the message built without its reply-to
BuildMessageNoReplyTo(v, b) ==
    [ from |-> v.from, to |-> v.to, subject |-> v.subject,
      reply_to |-> None, body |-> BuildBody(b) ]

\* Message::builder().from(from).to(to).subject(subject) [.reply_to(..)]
\* and .multipart(..) or .body(..); with From and To set the builder does
\* not fail
BuildMessage(v, b) ==
    [ from |-> v.from, to |-> v.to, subject |-> v.subject,
      reply_to |-> v.reply_to, body |-> BuildBody(b) ]

(* ------------------------------- inputs ------------------------------- *)

\* sequences over S of length at most n
SeqsUpTo(S, n) == UNION { [ 1..k -> S ] : k \in 0..n }

\* -k arguments on the command line
MaxArgs == 2

\* the hexadecimal SHA-256 digest of "secret", as an operator would type it
HexSecretLower ==
    << "2","b","b","8","0","d","5","3","7","b","1","d","a","3","e","3",
       "8","b","d","3","0","3","6","1","a","a","8","5","5","6","8","6",
       "b","d","e","0","e","a","c","d","7","1","6","2","f","e","f","6",
       "a","2","5","f","e","9","7","b","f","5","2","7","a","2","5","b" >>

HexSecretUpper ==
    << "2","B","B","8","0","D","5","3","7","B","1","D","A","3","E","3",
       "8","B","D","3","0","3","6","1","A","A","8","5","5","6","8","6",
       "B","D","E","0","E","A","C","D","7","1","6","2","F","E","F","6",
       "A","2","5","F","E","9","7","B","F","5","2","7","A","2","5","B" >>

\* a@x=<digest>
ArgAlice == << "a","@","x","=" >> \o HexSecretLower

\* " A@X =<DIGEST>": the same identity once trimmed and lowercased
ArgAliceUpper == << " ","A","@","X"," ","=" >> \o HexSecretUpper

\* a@=<digest>: accepted as an identity (it holds '@'), not a mailbox
ArgNoDomain == << "a","@","=" >> \o HexSecretLower

\* rejected arguments: no '=', no '@', 63 characters, a character not hex
ArgNoEquals == << "a","@","x" >>

ArgNoAt == << "a","x","=" >> \o HexSecretLower

ArgShort == << "a","@","x","=" >> \o SubSeq(HexSecretLower, 1, 63)

ArgNotHex == << "a","@","x","=","g" >> \o SubSeq(HexSecretLower, 1, 63)

ArgPool ==
    { ArgAlice, ArgAliceUpper, ArgNoDomain,
      ArgNoEquals, ArgNoAt, ArgShort, ArgNotHex }

\* the command lines of the model: at most MaxArgs arguments of the pool,
\* in every order, none given twice
CommandLines ==
    { args \in SeqsUpTo(ArgPool, MaxArgs) :
        \A i, j \in DOMAIN args : i # j => args[i] # args[j] }

Hdr(n, v) == [ field |-> n, value |-> v ]

AddrBob == << "b","@","y" >>

AddrReply == << "r","@","w" >>

NotAnAddress == << "b","a","d" >>

HeaderPool ==
    { Hdr(<< "T","o" >>, AddrBob),
      Hdr(<< "t","o" >>, NotAnAddress),
      Hdr(<< "F","r","o","m" >>, << "A","@","x" >>),
      Hdr(<< "f","r","o","m" >>, << "a","@" >>),
      Hdr(<< "S","u","b","j","e","c","t" >>, << "H","i" >>),
      Hdr(<< "R","e","p","l","y","-","T","o" >>, AddrReply),
      Hdr(<< "r","e","p","l","y","-","t","o" >>, NotAnAddress),
      Hdr(<< "A","p","i","-","K","e","y" >>, KeySecret),
      Hdr(<< "a","p","i","-","k","e","y" >>, KeyWrong) }

HeaderName(h) == ToAsciiLowercase(h.field)

\* the header sequences that extend one of S by a header of the pool whose
\* name (in any letter case) none of its headers bears
NewNames(hs) ==
    { h \in HeaderPool :
        \A i \in DOMAIN hs : HeaderName(hs[i]) # HeaderName(h) }

ExtendByNewName(S) ==
    UNION { { Append(hs, h) : h \in NewNames(hs) } : hs \in S }

RECURSIVE DistinctNameSeqs(_)
DistinctNameSeqs(S) ==
    IF S = {} THEN {} ELSE S \cup DistinctNameSeqs(ExtendByNewName(S))

\* the header sequences of the requests served: every choice of headers of
\* the pool, in every order, with no name repeated (repeated names are the
\* matter of ExtractSpec)
RequestHeaders == DistinctNameSeqs({ << >> })

\* request bodies: plain text, plain text and HTML
BodyPool ==
    { << "h","i" >>,
      << "h","i" >> \o Sentinel \o << "<","b",">" >> }

(* -------------------------------- state ------------------------------- *)

VARIABLES
    phase,      \* main: "start", "serve", or "exit" (clap rejected the arguments)
    kv,         \* cli.kv, the registry
    pc,         \* where the request in hand is
    headers,    \* request.headers()
    body,       \* the body read from the request
    fields,     \* to, from, subject, reply_to, api_key after the scan
    params,     \* the validated to, from, reply_to, subject
    email,      \* the built Message
    result,     \* what handle_request returns
    sent,       \* the calls of mailer.send for this request
    response    \* the response given to the request

vars ==
    << phase, kv, pc, headers, body, fields, params, email, result, sent,
       response >>

request == << headers, body, fields, params, email, result, sent >>

NoRequest ==
    /\ headers = << >>
    /\ body = << >>
    /\ fields = NoFields
    /\ params = None
    /\ email = None
    /\ result = None
    /\ sent = << >>

Init ==
    /\ phase = "start"
    /\ kv = << >>
    /\ pc = "Idle"
    /\ NoRequest
    /\ response = None

\* Cli::parse(): every -k argument goes through parse_key_val
ParseCli ==
    /\ phase = "start"
    /\ \E args \in CommandLines :
         LET r == ParseKv(args) IN
         IF r.ok THEN phase' = "serve" /\ kv' = r.val
         ELSE phase' = "exit" /\ kv' = kv
    /\ UNCHANGED << pc, request, response >>

\* the routes of main that never reach handle_request: 301 for "/", 404 for
\* any other path, 400 when the body cannot be read
RespondWithout(status) ==
    /\ phase = "serve"
    /\ pc = "Idle"
    /\ response' = Some(status)
    /\ pc' = "Responded"
    /\ UNCHANGED << phase, kv, request >>

Redirect == RespondWithout("301")

NotFound == RespondWithout("404")

BodyUnreadable == RespondWithout("400")

\* a request for /send-email whose body was read: handle_request is called
Receive ==
    /\ phase = "serve"
    /\ pc = "Idle"
    /\ \E hs \in RequestHeaders, b \in BodyPool :
         /\ headers' = hs
         /\ body' = b
    /\ pc' = "Received"
    /\ fields' = NoFields
    /\ params' = None
    /\ email' = None
    /\ result' = None
    /\ sent' = << >>
    /\ UNCHANGED << phase, kv, response >>

\* "Extract parameters"
Extract ==
    /\ pc = "Received"
    /\ fields' = ExtractFields(headers)
    /\ pc' = "Extracted"
    /\ UNCHANGED << phase, kv, headers, body, params, email, result, sent,
                    response >>

\* "Check api key"
Authenticate ==
    /\ pc = "Extracted"
    /\ LET r == CheckApiKey(fields, kv) IN
       IF r.ok THEN pc' = "Authenticated" /\ result' = result
       ELSE pc' = "Failed" /\ result' = Some(r)
    /\ UNCHANGED << phase, kv, headers, body, fields, params, email, sent,
                    response >>

\* "Parse and validate parameters"
Validate ==
    /\ pc = "Authenticated"
    /\ LET r == ValidateParams(fields) IN
       IF r.ok THEN pc' = "Validated" /\ params' = Some(r.val)
                    /\ result' = result
       ELSE pc' = "Failed" /\ params' = params /\ result' = Some(r)
    /\ UNCHANGED << phase, kv, headers, body, fields, email, sent, response >>

\* "Build the message"
Compose ==
    /\ pc = "Validated"
    /\ email' = Some(BuildMessage(Unwrap(params), body))
    /\ pc' = "Composed"
    /\ UNCHANGED << phase, kv, headers, body, fields, params, result, sent,
                    response >>

\* the dispatch with one more call of the transport after a failed one
DispatchWithRetry ==
    /\ pc = "Composed"
    /\ \E delivered \in BOOLEAN :
         /\ sent' = Append(sent, [ message |-> Unwrap(email),
                                   delivered |-> delivered ])
         /\ IF delivered THEN pc' = "Dispatched" /\ result' = Some(Ok(<< >>))
            ELSE IF sent = << >> THEN pc' = pc /\ result' = result
            ELSE pc' = "Failed" /\ result' = Some(Err(FromSmtpError))
    /\ UNCHANGED << phase, kv, headers, body, fields, params, email,
                    response >>

\* "Send the message": mailer.send(&email)?, one call of the transport, which
\* delivers the message or fails
Dispatch ==
    /\ pc = "Composed"
    /\ \E delivered \in BOOLEAN :
         /\ sent' = Append(sent, [ message |-> Unwrap(email),
                                   delivered |-> delivered ])
         /\ IF delivered THEN pc' = "Dispatched" /\ result' = Some(Ok(<< >>))
            ELSE pc' = "Failed" /\ result' = Some(Err(FromSmtpError))
    /\ UNCHANGED << phase, kv, headers, body, fields, params, email,
                    response >>

\* main: 200 for Ok, the error's response otherwise; the request, with all
\* that handle_request made of it, is dropped
Respond ==
    /\ pc \in { "Dispatched", "Failed" }
    /\ response' = Some(IF Unwrap(result).ok THEN "200"
                        ELSE Unwrap(result).err.kind)
    /\ pc' = "Responded"
    /\ headers' = << >>
    /\ body' = << >>
    /\ fields' = NoFields
    /\ params' = None
    /\ email' = None
    /\ result' = None
    /\ sent' = << >>
    /\ UNCHANGED << phase, kv >>

\* for mut request in server.incoming_requests(): on to the next request
NextRequest ==
    /\ pc = "Responded"
    /\ pc' = "Idle"
    /\ response' = None
    /\ UNCHANGED << phase, kv, request >>

Next ==
    \/ ParseCli
    \/ Redirect
    \/ NotFound
    \/ BodyUnreadable
    \/ Receive
    \/ Extract
    \/ Authenticate
    \/ Validate
    \/ Compose
    \/ Dispatch
    \/ Respond
    \/ NextRequest

Spec == Init /\ [][Next]_vars

(* ------------------------ extraction on its own ----------------------- *)

\* headers of one scanned request
MaxScan == 3

ScanPool ==
    { Hdr(<< "t","o" >>, AddrBob),
      Hdr(<< "T","O" >>, NotAnAddress),
      Hdr(<< "F","r","o","m" >>, << "A","@","x" >>),
      Hdr(<< "f","r","o","m" >>, << "a","@" >>),
      Hdr(<< "S","u","b","j","e","c","t" >>, << "H","i" >>),
      Hdr(<< "s","u","b","j","e","c","t" >>, << >>),
      Hdr(<< "R","e","p","l","y","-","T","o" >>, AddrReply),
      Hdr(<< "a","p","i","-","k","e","y" >>, KeySecret),
      Hdr(<< "A","P","I","-","K","E","Y" >>, KeyWrong),
      Hdr(<< "X","-","T","o" >>, AddrBob),
      Hdr(<< "r","e","p","l","y" >>, AddrReply) }

\* a request in hand, its headers any sequence over ScanPool
ExtractInit ==
    /\ phase = "serve"
    /\ kv = ParseKv(<< ArgAlice >>).val
    /\ pc = "Received"
    /\ headers \in SeqsUpTo(ScanPool, MaxScan)
    /\ body \in BodyPool
    /\ fields = NoFields
    /\ params = None
    /\ email = None
    /\ result = None
    /\ sent = << >>
    /\ response = None

ExtractSpec == ExtractInit /\ [][Extract]_vars

(* ----------------------- composition on its own ----------------------- *)

\* pieces of one composed body
MaxBodyParts == 3

\* the sentinel without its first character
SentinelTail == Tail(Sentinel)

BodyParts == { << "p" >>, << "\n" >>, Sentinel, SentinelTail }

RECURSIVE Concat(_)
Concat(parts) ==
    IF parts = << >> THEN << >> ELSE Head(parts) \o Concat(Tail(parts))

Bodies == { Concat(parts) : parts \in SeqsUpTo(BodyParts, MaxBodyParts) }

ValidHeaders ==
    << Hdr(<< "T","o" >>, AddrBob),
       Hdr(<< "F","r","o","m" >>, << "A","@","x" >>),
       Hdr(<< "S","u","b","j","e","c","t" >>, << "H","i" >>),
       Hdr(<< "A","p","i","-","K","e","y" >>, KeySecret) >>

\* a request that passed validation, its body any of Bodies
ComposeInit ==
    /\ phase = "serve"
    /\ kv = ParseKv(<< ArgAlice >>).val
    /\ pc = "Validated"
    /\ headers = ValidHeaders
    /\ body \in Bodies
    /\ fields = ExtractFields(ValidHeaders)
    /\ params = Some(ValidateParams(ExtractFields(ValidHeaders)).val)
    /\ email = None
    /\ result = None
    /\ sent = << >>
    /\ response = None

ComposeSpec == ComposeInit /\ [][Compose]_vars

(* ---------------- the request, read off its headers ------------------ *)

NameTo == << "t","o" >>

NameFrom == << "f","r","o","m" >>

NameSubject == << "s","u","b","j","e","c","t" >>

NameReplyTo == << "r","e","p","l","y","-","t","o" >>

NameApiKey == << "a","p","i","-","k","e","y" >>

\* the positions of the headers bearing the name, in any letter case
Bearing(hs, name) ==
    { i \in DOMAIN hs : Len(hs[i].field) = Len(name)
                        /\ \A k \in DOMAIN name :
                             LowerChar(hs[i].field[k]) = name[k] }

\* the value of the last header bearing the name; None when there is none
LastValue(hs, name) ==
    IF Bearing(hs, name) = {} THEN None
    ELSE Some(hs[CHOOSE i \in Bearing(hs, name) :
                   \A k \in Bearing(hs, name) : k <= i].value)

Handling ==
    pc \in { "Received", "Extracted", "Authenticated", "Validated",
             "Composed", "Dispatched", "Failed" }

Terminal == pc \in { "Dispatched", "Failed" }

ReqApiKey == LastValue(headers, NameApiKey)

ReqTo == LastValue(headers, NameTo)

ReqSubject == LastValue(headers, NameSubject)

ReqReplyTo == LastValue(headers, NameReplyTo)

\* the from value lowercased; the empty string when there is no from
ReqFromLower ==
    IF LastValue(headers, NameFrom) = None THEN << >>
    ELSE ToAsciiLowercase(Unwrap(LastValue(headers, NameFrom)))

ReqDigest == DigestOf[Unwrap(ReqApiKey)]

\* the registry entries whose identity is the lowercased from value
Entries == { i \in DOMAIN kv : kv[i][1] = ReqFromLower }

FirstEntry == CHOOSE i \in Entries : \A k \in Entries : i <= k

\* t occurs in s as a run of consecutive characters
IsSubstring(t, s) ==
    \E off \in 0..(Len(s) - Len(t)) : \A k \in DOMAIN t : s[off + k] = t[k]

\* no entry for the sender, or the digest of the api-key does not contain
\* the stored hash of the sender's entry (the first, should there be several)
Denied ==
    \/ Entries = {}
    \/ ~ IsSubstring(kv[FirstEntry][2], ReqDigest)

\* user@domain: one '@', with text on both sides and no whitespace
WellFormed(s) ==
    /\ Cardinality({ i \in DOMAIN s : s[i] = "@" }) = 1
    /\ s[1] # "@"
    /\ s[Len(s)] # "@"
    /\ \A i \in DOMAIN s : s[i] \notin { " ", "\t", "\n" }

FailedWith(kind) ==
    /\ pc = "Failed"
    /\ result # None
    /\ ~ Unwrap(result).ok
    /\ Unwrap(result).err.kind = kind

(* ------------------------------- claims ------------------------------- *)

\* C1: while a request whose headers hold no api-key header (in any letter
\* case) is handled, whatever its other headers, its body and the registry,
\* the transport is not invoked, the request stops at the api-key check and
\* what handle_request returns is MissingApiKey.
C1_MissingApiKey ==
    (Handling /\ Bearing(headers, NameApiKey) = {}) =>
        /\ sent = << >>
        /\ pc \in { "Received", "Extracted", "Failed" }
        /\ pc = "Failed" => result = Some(Err([ kind |-> "MissingApiKey" ]))

\* C1 witness: a request of an authorized sender with to, from and subject
\* but no api-key has failed.
C1_Witness ==
    /\ pc = "Failed"
    /\ Bearing(headers, NameApiKey) = {}
    /\ Entries # {}
    /\ ReqTo # None
    /\ ReqSubject # None

\* C2: while a request that carries an api-key is handled, if the registry
\* has no entry whose identity is the lowercased from value (the empty string
\* when from is absent), or the hexadecimal SHA-256 digest of the api-key does
\* not contain that entry's stored hash, the transport is not invoked and what
\* handle_request returns is Unauthorized carrying the computed digest.
C2_Unauthorized ==
    (Handling /\ ReqApiKey # None /\ Denied) =>
        /\ sent = << >>
        /\ pc \in { "Received", "Extracted", "Failed" }
        /\ pc = "Failed" =>
             result = Some(Err([ kind |-> "Unauthorized",
                                 digest |-> ReqDigest ]))

\* C2 witness: the sender has an entry, the digest of the api-key does not
\* contain its stored hash, and the request has failed.
C2_Witness ==
    /\ pc = "Failed"
    /\ ReqApiKey # None
    /\ Entries # {}
    /\ Denied

\* the address text of a mailbox
AddrText(m) == m.user \o << "@" >> \o m.domain

ReqFromPresent == LastValue(headers, NameFrom) # None

\* api-key present, to and from well-formed, subject present, and reply-to
\* well-formed when present
ReqValid ==
    /\ ReqApiKey # None
    /\ ReqTo # None
    /\ WellFormed(Unwrap(ReqTo))
    /\ ReqFromPresent
    /\ WellFormed(ReqFromLower)
    /\ ReqSubject # None
    /\ ReqReplyTo # None => WellFormed(Unwrap(ReqReplyTo))

\* the sender's entry (the first, should there be several) stores the digest
\* of the api-key
Registered ==
    /\ Entries # {}
    /\ kv[FirstEntry][2] = ReqDigest

\* the parts of the message body are the request body, the sentinel apart
BodyOfRequest(b) ==
    IF b.kind = "plain" THEN b.text = body
    ELSE b.plain \o Sentinel \o b.html = body

\* from (as extracted, in lowercase), to, subject, reply-to and body of the
\* message are those of the request
MessageOfRequest(m) ==
    /\ AddrText(m.from) = ReqFromLower
    /\ AddrText(m.to) = Unwrap(ReqTo)
    /\ m.subject = Unwrap(ReqSubject)
    /\ IF ReqReplyTo = None THEN m.reply_to = None
       ELSE /\ m.reply_to # None
            /\ AddrText(Unwrap(m.reply_to)) = Unwrap(ReqReplyTo)
    /\ BodyOfRequest(m.body)

\* C3 as stated: for a valid request of a registered sender with the right
\* api-key, handle_request ends in success and the transport has received
\* exactly one message, with the fields of the request.
C3_AlwaysSuccess ==
    (Terminal /\ ReqValid /\ Registered) =>
        /\ pc = "Dispatched"
        /\ result = Some(Ok(<< >>))
        /\ Len(sent) = 1
        /\ MessageOfRequest(sent[1].message)

\* C3 amended: for such a request the transport is invoked exactly once, with
\* a message whose fields are those of the request, and handle_request ends
\* in success when that call delivers and in DispatchFailed when it fails;
\* before the end the transport has not been invoked.
C3_SentOnce ==
    (Handling /\ ReqValid /\ Registered) =>
        IF Terminal
        THEN /\ Len(sent) = 1
             /\ MessageOfRequest(sent[1].message)
             /\ IF sent[1].delivered
                THEN pc = "Dispatched" /\ result = Some(Ok(<< >>))
                ELSE FailedWith("DispatchFailed")
        ELSE sent = << >>

\* C3 witness: a request with a reply-to, a mixed-case From and a body of two
\* parts has been delivered.
C3_Witness ==
    /\ pc = "Dispatched"
    /\ ReqValid
    /\ Registered
    /\ ReqReplyTo # None
    /\ ReqFromLower # Unwrap(LastValue(headers, NameFrom))
    /\ Unwrap(email).body.kind = "alternative"

StageRank ==
    [ s \in { "Received", "Extracted", "Authenticated", "Validated",
              "Composed", "Dispatched" } |->
        CASE s = "Received" -> 1
          [] s = "Extracted" -> 2
          [] s = "Authenticated" -> 3
          [] s = "Validated" -> 4
          [] s = "Composed" -> 5
          [] s = "Dispatched" -> 6 ]

\* one step of a call: one stage forward, or to Failed; out of a terminal
\* state only to the response; the transport is invoked in a step out of
\* Composed only, once, with the message built
ForwardStep ==
    /\ (Handling /\ ~ Terminal /\ pc' # pc) =>
           \/ pc' = "Failed"
           \/ pc' \in DOMAIN StageRank /\ StageRank[pc'] = StageRank[pc] + 1
    /\ (Terminal /\ pc' # pc) => pc' = "Responded"
    /\ (Terminal /\ pc' = pc) => result' = result
    /\ sent' # sent =>
           \/ sent' = << >>
           \/ /\ pc = "Composed"
              /\ sent = << >>
              /\ params # None
              /\ email # None
              /\ Len(sent') = 1
              /\ sent'[1].message = Unwrap(email)

\* a call has an outcome exactly when it is in a terminal state, Dispatched
\* is the success, and the transport has been invoked at most once, in a
\* call that has ended
OneOutcome ==
    /\ result # None <=> Terminal
    /\ pc = "Dispatched" => result = Some(Ok(<< >>)) /\ Len(sent) = 1
    /\ pc = "Failed" => ~ Unwrap(result).ok
    /\ Len(sent) <= 1
    /\ sent # << >> => Terminal

\* C4: each call of handle_request moves only forward through Received,
\* Extracted, Authenticated, Validated, Composed and ends in exactly one
\* terminal outcome, Dispatched or Failed; the transport is invoked at most
\* once per call, never again, and only once extraction, authentication,
\* validation and composition have succeeded.
C4_ForwardOnly == [][ForwardStep]_vars /\ []OneOutcome

\* C4 witness: a call has reached Dispatched with one call of the transport.
C4_Witness ==
    /\ pc = "Dispatched"
    /\ Len(sent) = 1
    /\ sent[1].delivered

\* C7 as stated: a request whose from is absent, and which has no other
\* defect (its api-key is one the registry stores the digest of, its to and
\* reply-to are well-formed, its subject is present), fails with MissingFrom.
C7_MissingFromReached ==
    ( /\ pc = "Failed"
      /\ ReqApiKey # None
      /\ \E i \in DOMAIN kv : kv[i][2] = ReqDigest
      /\ ReqTo # None
      /\ WellFormed(Unwrap(ReqTo))
      /\ ReqReplyTo # None => WellFormed(Unwrap(ReqReplyTo))
      /\ ReqSubject # None
      /\ ~ ReqFromPresent ) => FailedWith("MissingFrom")

\* C8 as stated: once the arguments are loaded, no two entries of the
\* registry have the same identity.
C8_UniqueIdentities ==
    phase = "serve" =>
        \A i, j \in DOMAIN kv : kv[i][1] = kv[j][1] => i = j

\* the kind of the first check, in the code's order, that the request fails;
\* "none" when every check before the dispatch passes
FirstFailure ==
    IF ReqApiKey = None THEN "MissingApiKey"
    ELSE IF Denied THEN "Unauthorized"
    ELSE IF ReqTo = None THEN "MissingTo"
    ELSE IF ~ WellFormed(Unwrap(ReqTo)) THEN "MailboxParseError"
    ELSE IF ~ ReqFromPresent THEN "MissingFrom"
    ELSE IF ~ WellFormed(ReqFromLower) THEN "MailboxParseError"
    ELSE IF ReqReplyTo # None /\ ~ WellFormed(Unwrap(ReqReplyTo))
         THEN "MailboxParseError"
    ELSE IF ReqSubject = None THEN "MissingSubject"
    ELSE "none"

\* C9: the outcome of handle_request is the kind of the first failing check
\* in the order api-key, authentication, to, from, reply-to, subject,
\* composition, dispatch, and no later check has run: nothing is validated
\* after a failed authentication, and no message is built or sent after a
\* failed validation.
C9_FirstFailureWins ==
    Terminal =>
        IF FirstFailure = "none"
        THEN /\ Len(sent) = 1
             /\ pc = "Dispatched" \/ FailedWith("DispatchFailed")
        ELSE /\ FailedWith(FirstFailure)
             /\ sent = << >>
             /\ email = None
             /\ params = None

\* C9 witness: an authorized request with no to, a malformed reply-to and no
\* subject has failed with MissingTo.
C9_Witness ==
    /\ FailedWith("MissingTo")
    /\ ReqApiKey # None
    /\ ~ Denied
    /\ ReqReplyTo # None
    /\ ~ WellFormed(Unwrap(ReqReplyTo))
    /\ ReqSubject = None

HasUpperHex(s) == \E i \in DOMAIN s : s[i] \in { "A","B","C","D","E","F" }

\* C10: every stored hash of the registry has 64 hexadecimal characters, so
\* that a digest contains it exactly when it equals it; a request with an
\* api-key passes the authentication if and only if the first entry whose
\* identity is the lowercased from value stores the lowercase digest of the
\* api-key, and never on an entry with an uppercase digit.
C10_ExactMatch ==
    /\ \A i \in DOMAIN kv, key \in DOMAIN DigestOf :
         IsSubstring(kv[i][2], DigestOf[key]) <=> kv[i][2] = DigestOf[key]
    /\ ( /\ Handling
         /\ pc \notin { "Received", "Extracted" }
         /\ ReqApiKey # None ) =>
           /\ ~ FailedWith("Unauthorized") <=> Registered
           /\ ~ FailedWith("Unauthorized") => ~ HasUpperHex(kv[FirstEntry][2])

\* C10 witness: the sender's entry stores the digest of the api-key in
\* uppercase, and the request has failed as Unauthorized.
C10_Witness ==
    /\ FailedWith("Unauthorized")
    /\ ReqApiKey = Some(KeySecret)
    /\ Entries # {}
    /\ kv[FirstEntry][2] = HexSecretUpper

\* the sentinel lies in b at the 0-based offset i
SentinelAt(b, i) ==
    /\ i + Len(Sentinel) <= Len(b)
    /\ \A k \in DOMAIN Sentinel : b[i + k] = Sentinel[k]

SentinelOffsets(b) == { i \in 0..Len(b) : SentinelAt(b, i) }

FirstSentinel(b) ==
    CHOOSE i \in SentinelOffsets(b) : \A k \in SentinelOffsets(b) : i <= k

\* C5: the body of the composed message is the reference split of the raw
\* body: when the 31-character sentinel occurs, first at offset i, the two
\* parts, the plain one the characters before i and the HTML one the
\* characters from i + 31 to the end; when it does not occur, the one plain
\* part, equal to the raw body.
C5_ReferenceSplit ==
    pc = "Composed" =>
        LET b == Unwrap(email).body IN
        IF SentinelOffsets(body) # {}
        THEN LET i == FirstSentinel(body) IN
             /\ b.kind = "alternative"
             /\ Len(b.plain) = i
             /\ \A k \in 1..i : b.plain[k] = body[k]
             /\ Len(b.html) = Len(body) - (i + 31)
             /\ \A k \in 1..Len(b.html) : b.html[k] = body[i + 31 + k]
        ELSE /\ b.kind = "plain"
             /\ b.text = body

\* C5 witness: a body in which the sentinel occurs twice, after some plain
\* text, has been composed.
C5_Witness ==
    /\ pc = "Composed"
    /\ Cardinality(SentinelOffsets(body)) = 2
    /\ FirstSentinel(body) > 0
    /\ Unwrap(email).body.kind = "alternative"

\* C6 as stated: each of the five fields is the value of the last header
\* bearing its name, and is absent exactly when no header bears it.
C6_LastValue ==
    pc = "Extracted" =>
        /\ fields.to = LastValue(headers, NameTo)
        /\ fields.from = LastValue(headers, NameFrom)
        /\ fields.subject = LastValue(headers, NameSubject)
        /\ fields.reply_to = LastValue(headers, NameReplyTo)
        /\ fields.api_key = LastValue(headers, NameApiKey)

\* C6 amended: to, subject, reply-to and api-key are the value of the last
\* header bearing the name, from is that value in lowercase, and a field is
\* absent exactly when no header bears its name; headers with other names
\* change no field.
C6_LastValueFromLowercased ==
    pc = "Extracted" =>
        /\ fields.to = LastValue(headers, NameTo)
        /\ fields.from =
             IF LastValue(headers, NameFrom) = None THEN None
             ELSE Some(ToAsciiLowercase(Unwrap(LastValue(headers, NameFrom))))
        /\ fields.subject = LastValue(headers, NameSubject)
        /\ fields.reply_to = LastValue(headers, NameReplyTo)
        /\ fields.api_key = LastValue(headers, NameApiKey)

\* C6 witness: two headers named to, in different letter cases and with
\* different values, and a header of another name have been scanned.
C6_Witness ==
    /\ pc = "Extracted"
    /\ \E i, j \in Bearing(headers, NameTo) :
         /\ i < j
         /\ headers[i].field # headers[j].field
         /\ headers[i].value # headers[j].value
    /\ \E i \in DOMAIN headers :
         \A n \in { NameTo, NameFrom, NameSubject, NameReplyTo, NameApiKey } :
           i \notin Bearing(headers, n)

=============================================================================
